---- MODULE Spec2Model ----
(***************************************************************************)
(* Scene orchestration of the Unimate presentation: GlobalState (progress  *)
(* store backed by sessionStorage), App (scene controller with its         *)
(* progression guard and fade overlay) and the progression-relevant state  *)
(* of LoadingScene and EntryGateScene.                                     *)
(*                                                                         *)
(* JavaScript array indices are kept 0-based: scene index i is element     *)
(* i + 1 of the TLA+ sequences below.                                      *)
(***************************************************************************)
EXTENDS Integers, Sequences, FiniteSets

VARIABLES
    store,            \* sessionStorage entry 'unimate_last_scene': [present, text]
    storeBlocked,     \* sessionStorage access throws (sandboxed context)
    currentScene,     \* GlobalState.currentScene
    visitedScenes,    \* GlobalState.visitedScenes
    canProgress,      \* GlobalState.canProgress
    activeDot,        \* index of the .progress-dot carrying class 'active'
    appCurrentScene,  \* App.currentScene: a scene name, or "none" for null
    progressGuard,    \* App._progressGuard
    guardTimers,      \* pending setTimeout(() => _progressGuard = false, 500)
    hasOverlay,       \* document has the #loading-overlay element
    overlayHidden,    \* #loading-overlay carries class 'hidden'
    fadeTimers,       \* pending setTimeout(() => overlay.classList.add('hidden'))
    disposeCalls,     \* scene name -> number of dispose() calls on the instance
    phase,            \* LoadingScene.phase
    explodeStarted,   \* LoadingScene._explodeStarted
    isComplete,       \* LoadingScene.isComplete
    loaderPending,    \* simulateLoading's requestAnimationFrame(tick) is pending
    cameraPastGate,   \* camera.instance.position.z < PROGRESSION_Z_THRESHOLD
    userPassedThrough,\* EntryGateScene.userPassedThrough
    progressionEnabled,\* EntryGateScene.progressionEnabled
    arrowHandler,     \* #arrow-forward carries the gate's click handler
    phaseTimer,       \* LoadingScene.phaseTimer, in milliseconds
    lastSinSign,      \* LoadingScene.lastSinSign
    pulseTime,        \* LoadingScene.pulseTime, in milliseconds modulo PulsePeriod
    dotPulseCount,    \* LoadingScene.dotPulseCount
    elapsedTime,      \* EntryGateScene.elapsedTime, in milliseconds
    doorsOpened,      \* EntryGateScene.doorsOpened
    textVisible,      \* EntryGateScene.textVisible
    fontLoaded,       \* EntryGateScene.fontLoaded
    fontPending,      \* loadFont's callbacks have not fired yet
    titleText,        \* EntryGateScene.titleText: "none" for null, "text" or "box"
    gateOpeningSoundPlayed, \* EntryGateScene.gateOpeningSoundPlayed
    timeElapsed,      \* Time.elapsed, in milliseconds
    gateActiveAt,     \* Time.elapsed when the gate became the active scene, -1 before
    calls,            \* method name -> number of calls made by the scene instances
    easeProbe,        \* the ease function last applied, its arguments and its values
    guardWindow,      \* what checkSceneProgression did since the guard was engaged
    lastOp            \* the operation that produced this state, with its result

vars == <<store, storeBlocked, currentScene, visitedScenes, canProgress,
          activeDot, appCurrentScene, progressGuard, guardTimers, hasOverlay,
          overlayHidden, fadeTimers, disposeCalls, phase, explodeStarted,
          isComplete, loaderPending, cameraPastGate, userPassedThrough,
          progressionEnabled, arrowHandler, phaseTimer, lastSinSign, pulseTime,
          dotPulseCount, elapsedTime, doorsOpened, textVisible, fontLoaded,
          fontPending, titleText, gateOpeningSoundPlayed, timeElapsed,
          gateActiveAt, calls, easeProbe, guardWindow, lastOp>>

(***************************************************************************)
(* Bounds of the model.                                                    *)
(***************************************************************************)
\* longest text the storage entry holds before the program first writes it
MaxStoreLen == 2
\* how far outside 0..N-1 the arguments of a direct setScene call range
ArgMargin == 2
\* fades that may be outstanding at once (a new swap waits for a free slot)
MaxFadeTimers == 2
\* checkSceneProgression calls counted within one guard window ("or more")
MaxPolls == 2

(***************************************************************************)
(* Scene name tables.                                                      *)
(***************************************************************************)
sceneNames ==
    <<"loading", "entryGate", "mainStreet", "workshopDistrict",
      "competitionArena", "hallOfLegacy", "enrollmentHub", "exitConfirmation">>

SCENE_NAMES ==
    <<"loading", "entryGate", "mainStreet", "workshopDistrict",
      "competitionArena", "hallOfLegacy", "enrollmentHub", "exitConfirmation">>

\* this.sceneNames.length
N == Len(sceneNames)

\* SCENE_NAMES[i] with a 0-based index; an index outside the array reads
\* undefined
SceneName(i) ==
    IF i \in 0..(Len(SCENE_NAMES) - 1) THEN SCENE_NAMES[i + 1] ELSE "undefined"

\* SCENE_NAMES.indexOf(name): 0-based, -1 when absent
IndexOf(name) ==
    IF \E k \in 1..Len(SCENE_NAMES) : SCENE_NAMES[k] = name
    THEN (CHOOSE k \in 1..Len(SCENE_NAMES) : SCENE_NAMES[k] = name) - 1
    ELSE -1

(***************************************************************************)
(* Strings: a string is a sequence of one-character strings.               *)
(***************************************************************************)
Digits == <<"0", "1", "2", "3", "4", "5", "6", "7", "8", "9">>

IsDigit(c) == \E d \in 1..Len(Digits) : Digits[d] = c

DigitVal(c) == (CHOOSE d \in 1..Len(Digits) : Digits[d] = c) - 1

\* characters of the texts the storage entry may hold at page load (the
\* texts "1".."7" also arise from the program's own writes)
StoreChars == {"0", "4", "8", "9", "-", "x", " "}

RECURSIVE SeqsUpTo(_, _)
SeqsUpTo(S, n) ==
    IF n = 0 THEN {<<>>}
    ELSE LET shorter == SeqsUpTo(S, n - 1)
         IN  shorter \cup {Append(t, c) : t \in shorter, c \in S}

StoreTexts == SeqsUpTo(StoreChars, MaxStoreLen)

\* String(index) for an integer
RECURSIVE NatToString(_)
NatToString(n) ==
    IF n < 10 THEN <<Digits[n + 1]>>
    ELSE Append(NatToString(n \div 10), Digits[(n % 10) + 1])

ToString(n) == IF n < 0 THEN <<"-">> \o NatToString(-n) ELSE NatToString(n)

\* the leading run of decimal digits of s, read as a number from acc
RECURSIVE LeadingDigits(_, _, _)
LeadingDigits(s, acc, seen) ==
    IF s = <<>> \/ ~IsDigit(Head(s))
    THEN [nan |-> ~seen, val |-> acc]
    ELSE LeadingDigits(Tail(s), acc * 10 + DigitVal(Head(s)), TRUE)

RECURSIVE TrimLeft(_)
TrimLeft(s) == IF s # <<>> /\ Head(s) = " " THEN TrimLeft(Tail(s)) ELSE s

\* variant: the sign is skipped but not applied
ParseInt_IgnoresSign(s) ==
    LET t == TrimLeft(s)
    IN  IF t # <<>> /\ Head(t) \in {"-", "+"}
        THEN LeadingDigits(Tail(t), 0, FALSE)
        ELSE LeadingDigits(t, 0, FALSE)

\* parseInt(s, 10): leading white space skipped, an optional sign, then the
\* longest run of digits; NaN when no digit is read
ParseInt(s) ==
    LET t == TrimLeft(s)
    IN  IF t # <<>> /\ Head(t) = "-"
        THEN LET r == LeadingDigits(Tail(t), 0, FALSE)
             IN  [nan |-> r.nan, val |-> -r.val]
        ELSE IF t # <<>> /\ Head(t) = "+"
        THEN LeadingDigits(Tail(t), 0, FALSE)
        ELSE LeadingDigits(t, 0, FALSE)

Absent == [present |-> FALSE, text |-> <<>>]

Stored(text) == [present |-> TRUE, text |-> text]

\* no counted method has been called yet
NoCalls ==
    [n \in {"playWhoosh", "playGateOpening", "enableProgression",
            "introSetCanProgress"} |-> 0]

\* no ease function has been applied yet
NoEase ==
    [fn |-> "none", a |-> 0, b |-> 0,
     fa |-> [n |-> 0, d |-> 1], fb |-> [n |-> 0, d |-> 1]]

(***************************************************************************)
(* The mutable program state as one record, so that a handler's nested     *)
(* calls compose as functions from state to state.  switchCalls and        *)
(* indexChanges count, within the running handler, the switchScene calls   *)
(* and the changes of GlobalState.currentScene.                            *)
(***************************************************************************)
Cur ==
    [store |-> store, storeBlocked |-> storeBlocked,
     currentScene |-> currentScene, visitedScenes |-> visitedScenes,
     canProgress |-> canProgress, activeDot |-> activeDot,
     appCurrentScene |-> appCurrentScene, progressGuard |-> progressGuard,
     guardTimers |-> guardTimers, hasOverlay |-> hasOverlay,
     overlayHidden |-> overlayHidden, fadeTimers |-> fadeTimers,
     disposeCalls |-> disposeCalls, phase |-> phase,
     explodeStarted |-> explodeStarted, isComplete |-> isComplete,
     loaderPending |-> loaderPending, cameraPastGate |-> cameraPastGate,
     userPassedThrough |-> userPassedThrough,
     progressionEnabled |-> progressionEnabled,
     arrowHandler |-> arrowHandler,
     phaseTimer |-> phaseTimer,
     lastSinSign |-> lastSinSign,
     pulseTime |-> pulseTime,
     dotPulseCount |-> dotPulseCount,
     elapsedTime |-> elapsedTime,
     doorsOpened |-> doorsOpened,
     textVisible |-> textVisible,
     fontLoaded |-> fontLoaded,
     fontPending |-> fontPending,
     titleText |-> titleText,
     gateOpeningSoundPlayed |-> gateOpeningSoundPlayed,
     timeElapsed |-> timeElapsed,
     gateActiveAt |-> gateActiveAt,
     calls |-> calls,
     easeProbe |-> easeProbe,
     switchCalls |-> 0, indexChanges |-> 0, log |-> <<>>]

Commit(s) ==
    \E v \in {s} :
        /\ store' = v.store
        /\ storeBlocked' = v.storeBlocked
        /\ currentScene' = v.currentScene
        /\ visitedScenes' = v.visitedScenes
        /\ canProgress' = v.canProgress
        /\ activeDot' = v.activeDot
        /\ appCurrentScene' = v.appCurrentScene
        /\ progressGuard' = v.progressGuard
        /\ guardTimers' = v.guardTimers
        /\ hasOverlay' = v.hasOverlay
        /\ overlayHidden' = v.overlayHidden
        /\ fadeTimers' = v.fadeTimers
        /\ disposeCalls' = v.disposeCalls
        /\ phase' = v.phase
        /\ explodeStarted' = v.explodeStarted
        /\ isComplete' = v.isComplete
        /\ loaderPending' = v.loaderPending
        /\ cameraPastGate' = v.cameraPastGate
        /\ userPassedThrough' = v.userPassedThrough
        /\ progressionEnabled' = v.progressionEnabled
        /\ arrowHandler' = v.arrowHandler
        /\ phaseTimer' = v.phaseTimer
        /\ lastSinSign' = v.lastSinSign
        /\ pulseTime' = v.pulseTime
        /\ dotPulseCount' = v.dotPulseCount
        /\ elapsedTime' = v.elapsedTime
        /\ doorsOpened' = v.doorsOpened
        /\ textVisible' = v.textVisible
        /\ fontLoaded' = v.fontLoaded
        /\ fontPending' = v.fontPending
        /\ titleText' = v.titleText
        /\ gateOpeningSoundPlayed' = v.gateOpeningSoundPlayed
        /\ timeElapsed' = v.timeElapsed
        /\ gateActiveAt' = v.gateActiveAt
        /\ calls' = v.calls
        /\ easeProbe' = v.easeProbe

\* the part of a state record that is program state (the handler-local
\* counters and the handler's call log dropped)
Program(s) == [s EXCEPT !.switchCalls = 0, !.indexChanges = 0, !.log = <<>>]

\* the handler's call log: one <<kind, name>> entry per call made, in order
Log(s, kind, name) == [s EXCEPT !.log = Append(@, <<kind, name>>)]

(***************************************************************************)
(* GlobalState                                                             *)
(***************************************************************************)
\* sessionStorage.getItem(SESSION_KEY): throws when storage is blocked
StorageGetItem(s) ==
    [threw |-> s.storeBlocked,
     value |-> IF s.storeBlocked THEN Absent ELSE s.store]

\* idx >= 1 && idx < this.sceneNames.length (false for NaN)
ValidSaved(p) == ~p.nan /\ p.val >= 1 /\ p.val < Len(sceneNames)

\* variant: the range test is idx >= 0
GetSavedScene_AllowsZero(s) ==
    LET got == StorageGetItem(s)
        p   == ParseInt(got.value.text)
    IN  IF got.threw
        THEN [threw |-> FALSE, ret |-> 1]
        ELSE IF got.value.present /\ ~p.nan /\ p.val >= 0
                /\ p.val < Len(sceneNames)
        THEN [threw |-> FALSE, ret |-> p.val]
        ELSE [threw |-> FALSE, ret |-> 1]

GetSavedScene(s) ==
    LET got == StorageGetItem(s)
    IN  IF got.threw
        THEN [threw |-> FALSE, ret |-> 1]          \* catch (_) {} ; return 1
        ELSE IF got.value.present /\ ValidSaved(ParseInt(got.value.text))
        THEN [threw |-> FALSE, ret |-> ParseInt(got.value.text).val]
        ELSE [threw |-> FALSE, ret |-> 1]

\* sessionStorage.setItem(SESSION_KEY, text): throws when storage is blocked
StorageSetItem(s, text) ==
    [threw |-> s.storeBlocked,
     st    |-> IF s.storeBlocked THEN s ELSE [s EXCEPT !.store = Stored(text)]]

\* try { sessionStorage.setItem(SESSION_KEY, String(index)) } catch (_) {}
SaveScene(s, index) ==
    LET put == StorageSetItem(s, ToString(index))
    IN  IF put.threw THEN s ELSE put.st

\* every .progress-dot is toggled: active exactly on the current index
UpdateProgressIndicator(s) == [s EXCEPT !.activeDot = s.currentScene]

\* variant: the lower bound of the index test is missing
SetScene_NoLowerBound(s, sceneIndex) ==
    IF sceneIndex < Len(sceneNames)
    THEN LET s1 == [s EXCEPT !.currentScene = sceneIndex,
                             !.visitedScenes = @ \cup {sceneIndex},
                             !.indexChanges =
                                 IF s.currentScene # sceneIndex THEN @ + 1 ELSE @,
                             !.log = Append(@, <<"setScene", SceneName(sceneIndex)>>)]
             s2 == UpdateProgressIndicator(s1)
         IN  IF sceneIndex > 0 THEN SaveScene(s2, sceneIndex) ELSE s2
    ELSE s

\* variant: the index is saved whatever it is
SetScene_SavesAlways(s, sceneIndex) ==
    IF sceneIndex >= 0 /\ sceneIndex < Len(sceneNames)
    THEN LET s1 == [s EXCEPT !.currentScene = sceneIndex,
                             !.visitedScenes = @ \cup {sceneIndex},
                             !.indexChanges =
                                 IF s.currentScene # sceneIndex THEN @ + 1 ELSE @,
                             !.log = Append(@, <<"setScene", SceneName(sceneIndex)>>)]
             s2 == UpdateProgressIndicator(s1)
         IN  SaveScene(s2, sceneIndex)
    ELSE s

\* variant: the index is saved only the first time it is visited
SetScene_SavesNewOnly(s, sceneIndex) ==
    IF sceneIndex >= 0 /\ sceneIndex < Len(sceneNames)
    THEN LET s1 == [s EXCEPT !.currentScene = sceneIndex,
                             !.visitedScenes = @ \cup {sceneIndex},
                             !.indexChanges =
                                 IF s.currentScene # sceneIndex THEN @ + 1 ELSE @,
                             !.log = Append(@, <<"setScene", SceneName(sceneIndex)>>)]
             s2 == UpdateProgressIndicator(s1)
         IN  IF sceneIndex > 0 /\ sceneIndex \notin s.visitedScenes
             THEN SaveScene(s2, sceneIndex) ELSE s2
    ELSE s

\* variant: the visited set is replaced by the new index alone
SetScene_ForgetsVisited(s, sceneIndex) ==
    IF sceneIndex >= 0 /\ sceneIndex < Len(sceneNames)
    THEN LET s1 == [s EXCEPT !.currentScene = sceneIndex,
                             !.visitedScenes = {sceneIndex},
                             !.indexChanges =
                                 IF s.currentScene # sceneIndex THEN @ + 1 ELSE @,
                             !.log = Append(@, <<"setScene", SceneName(sceneIndex)>>)]
             s2 == UpdateProgressIndicator(s1)
         IN  IF sceneIndex > 0 THEN SaveScene(s2, sceneIndex) ELSE s2
    ELSE s

\* variant: the upper bound of the index test is missing
SetScene_NoUpperBound(s, sceneIndex) ==
    IF sceneIndex >= 0
    THEN LET s1 == [s EXCEPT !.currentScene = sceneIndex,
                             !.visitedScenes = @ \cup {sceneIndex},
                             !.indexChanges =
                                 IF s.currentScene # sceneIndex THEN @ + 1 ELSE @,
                             !.log = Append(@, <<"setScene", SceneName(sceneIndex)>>)]
             s2 == UpdateProgressIndicator(s1)
         IN  IF sceneIndex > 0 THEN SaveScene(s2, sceneIndex) ELSE s2
    ELSE s

SetScene(s, sceneIndex) ==
    IF sceneIndex >= 0 /\ sceneIndex < Len(sceneNames)
    THEN LET s1 == [s EXCEPT !.currentScene = sceneIndex,
                             !.visitedScenes = @ \cup {sceneIndex},
                             !.indexChanges =
                                 IF s.currentScene # sceneIndex THEN @ + 1 ELSE @,
                             !.log = Append(@, <<"setScene", SceneName(sceneIndex)>>)]
             s2 == UpdateProgressIndicator(s1)
         IN  IF sceneIndex > 0 THEN SaveScene(s2, sceneIndex) ELSE s2
    ELSE s

\* variant: advances by two
NextScene_SkipsOne(s) ==
    IF s.currentScene < Len(sceneNames) - 1
    THEN [st |-> SetScene(s, s.currentScene + 2), ret |-> TRUE]
    ELSE [st |-> s, ret |-> FALSE]

\* variant: the bound test is <= length - 1
NextScene_OffByOne(s) ==
    IF s.currentScene <= Len(sceneNames) - 1
    THEN [st |-> SetScene(s, s.currentScene + 1), ret |-> TRUE]
    ELSE [st |-> s, ret |-> FALSE]

NextScene(s) ==
    IF s.currentScene < Len(sceneNames) - 1
    THEN [st |-> SetScene(s, s.currentScene + 1), ret |-> TRUE]
    ELSE [st |-> s, ret |-> FALSE]

SetCanProgress(s, v) == [s EXCEPT !.canProgress = v]

GetCanProgress(s) == s.canProgress

(***************************************************************************)
(* App                                                                     *)
(***************************************************************************)
\* this.scenes[sceneName] holds an instance (initScenes builds these two)
Registered(sceneName) == sceneName \in {"loading", "entryGate"}

\* LoadingScene.dispose / EntryGateScene.dispose: DOM and GPU resources are
\* released; no field of the scene object is changed
Dispose(s, sceneName) ==
    Log([s EXCEPT !.disposeCalls[sceneName] = @ + 1], "dispose", sceneName)

FadeTransition(s) ==
    IF ~s.hasOverlay THEN s
    ELSE [s EXCEPT !.overlayHidden = FALSE, !.fadeTimers = @ + 1]

\* variant: a name without an instance leaves the active scene in place
SwitchScene_KeepsSceneWhenMissing(s, sceneName) ==
    LET s0  == Log([s EXCEPT !.switchCalls = @ + 1], "switch", sceneName)
        idx == IndexOf(sceneName)
    IN  IF ~Registered(sceneName)
        THEN LET s1 == IF idx # -1 THEN SetScene(s0, idx) ELSE s0
             IN  FadeTransition(s1)
        ELSE LET s1 == IF s0.appCurrentScene # "none"
                       THEN Dispose(s0, s0.appCurrentScene) ELSE s0
                 s2 == Log([s1 EXCEPT !.appCurrentScene = sceneName],
                           "install", sceneName)
                 s3 == IF idx # -1 THEN SetScene(s2, idx) ELSE s2
             IN  FadeTransition(s3)

\* variant: the outgoing scene is disposed after the new one is installed
\* and the index set
SwitchScene_DisposesLast(s, sceneName) ==
    LET s0  == Log([s EXCEPT !.switchCalls = @ + 1], "switch", sceneName)
        idx == IndexOf(sceneName)
    IN  IF ~Registered(sceneName)
        THEN LET s1 == IF idx # -1 THEN SetScene(s0, idx) ELSE s0
                 s2 == Log([s1 EXCEPT !.appCurrentScene = "none"],
                           "install", "none")
             IN  FadeTransition(s2)
        ELSE LET s2 == Log([s0 EXCEPT !.appCurrentScene = sceneName],
                           "install", sceneName)
                 s3 == IF idx # -1 THEN SetScene(s2, idx) ELSE s2
                 s4 == IF s0.appCurrentScene # "none"
                       THEN Dispose(s3, s0.appCurrentScene) ELSE s3
             IN  FadeTransition(s4)

\* variant: dispose is called on the incoming scene
SwitchScene_DisposesIncoming(s, sceneName) ==
    LET s0  == Log([s EXCEPT !.switchCalls = @ + 1], "switch", sceneName)
        idx == IndexOf(sceneName)
    IN  IF ~Registered(sceneName)
        THEN LET s1 == IF idx # -1 THEN SetScene(s0, idx) ELSE s0
                 s2 == Log([s1 EXCEPT !.appCurrentScene = "none"],
                           "install", "none")
             IN  FadeTransition(s2)
        ELSE LET s1 == IF s0.appCurrentScene # "none"
                       THEN Dispose(s0, sceneName) ELSE s0
                 s2 == Log([s1 EXCEPT !.appCurrentScene = sceneName],
                           "install", sceneName)
                 s3 == IF idx # -1 THEN SetScene(s2, idx) ELSE s2
             IN  FadeTransition(s3)

SwitchScene(s, sceneName) ==
    LET s0  == Log([s EXCEPT !.switchCalls = @ + 1], "switch", sceneName)
        idx == IndexOf(sceneName)
    IN  IF ~Registered(sceneName)
        THEN LET s1 == IF idx # -1 THEN SetScene(s0, idx) ELSE s0
                 s2 == Log([s1 EXCEPT !.appCurrentScene = "none"],
                           "install", "none")
             IN  FadeTransition(s2)
        ELSE LET s1 == IF s0.appCurrentScene # "none"
                       THEN Dispose(s0, s0.appCurrentScene) ELSE s0
                 s2 == Log([s1 EXCEPT !.appCurrentScene = sceneName],
                           "install", sceneName)
                 s3 == IF idx # -1 THEN SetScene(s2, idx) ELSE s2
             IN  FadeTransition(s3)

\* variant: the step back to the loading stage is not refused
PreviousScene_ToLoading(s) ==
    LET currentIdx == s.currentScene
        prevIdx    == currentIdx - 1
    IN  IF currentIdx <= 0 THEN s
        ELSE SwitchScene(s, SceneName(prevIdx))

\* variant: the backward button moves the index without switching scenes
PreviousScene_IndexOnly(s) ==
    LET currentIdx == s.currentScene
        prevIdx    == currentIdx - 1
    IN  IF currentIdx <= 0 THEN s
        ELSE IF prevIdx = 0 THEN s
        ELSE SetScene(s, prevIdx)

\* variant: the backward button is ignored while the guard is engaged
PreviousScene_HeldByGuard(s) ==
    LET currentIdx == s.currentScene
        prevIdx    == currentIdx - 1
    IN  IF s.progressGuard THEN s
        ELSE IF currentIdx <= 0 THEN s
        ELSE IF prevIdx = 0 THEN s
        ELSE SwitchScene(s, SceneName(prevIdx))

PreviousScene(s) ==
    LET currentIdx == s.currentScene
        prevIdx    == currentIdx - 1
    IN  IF currentIdx <= 0 THEN s
        ELSE IF prevIdx = 0 THEN s
        ELSE SwitchScene(s, SceneName(prevIdx))

\* variant: no release timer is set
ScheduleGuardRelease_None(s) == s

\* setTimeout(() => { this._progressGuard = false; }, 500)
ScheduleGuardRelease(s) == [s EXCEPT !.guardTimers = @ + 1]

\* variant: the intro stage advances with nextScene like every other stage
CheckSceneProgression_NextFromIntro(s) ==
    IF ~GetCanProgress(s) \/ s.progressGuard THEN s
    ELSE LET s1 == SetCanProgress([s EXCEPT !.progressGuard = TRUE], FALSE)
             nx == NextScene(s1)
             s2 == IF nx.ret
                   THEN SwitchScene(nx.st, SceneName(nx.st.currentScene))
                   ELSE nx.st
         IN  ScheduleGuardRelease(s2)

\* the two branches of checkSceneProgression, entered past its first line
ProgressionBranches(s) ==
    IF s.currentScene = 0
    THEN LET s1 == SetCanProgress([s EXCEPT !.progressGuard = TRUE], FALSE)
             savedIdx == GetSavedScene(s1).ret
         IN  ScheduleGuardRelease(SwitchScene(s1, SceneName(savedIdx)))
    ELSE IF GetCanProgress(s)
    THEN LET s1 == SetCanProgress([s EXCEPT !.progressGuard = TRUE], FALSE)
             nx == NextScene(s1)
             s2 == IF nx.ret
                   THEN SwitchScene(nx.st, SceneName(nx.st.currentScene))
                   ELSE nx.st
         IN  ScheduleGuardRelease(s2)
    ELSE s

\* variant: the first line does not test the guard
CheckSceneProgression_NoGuardTest(s) ==
    IF ~GetCanProgress(s) THEN s ELSE ProgressionBranches(s)

\* variant: the first line does not test canProgress
CheckSceneProgression_NoFlagTest(s) ==
    IF s.progressGuard THEN s ELSE ProgressionBranches(s)

\* variant: the release timer is set only when nextScene() succeeds
CheckSceneProgression_TimerOnSuccessOnly(s) ==
    IF ~GetCanProgress(s) \/ s.progressGuard THEN s
    ELSE IF s.currentScene = 0
    THEN LET s1 == SetCanProgress([s EXCEPT !.progressGuard = TRUE], FALSE)
             savedIdx == GetSavedScene(s1).ret
         IN  ScheduleGuardRelease(SwitchScene(s1, SceneName(savedIdx)))
    ELSE LET s1 == SetCanProgress([s EXCEPT !.progressGuard = TRUE], FALSE)
             nx == NextScene(s1)
         IN  IF nx.ret
             THEN ScheduleGuardRelease(
                      SwitchScene(nx.st, SceneName(nx.st.currentScene)))
             ELSE nx.st

\* variant (the second definition of checkSceneProgression in App.js): the
\* check acts on the loading stage only and returns at every other index
CheckSceneProgression_IntroOnly(s) ==
    IF ~GetCanProgress(s) THEN s
    ELSE IF s.progressGuard THEN s
    ELSE IF s.currentScene # 0 THEN s
    ELSE LET s1 == SetCanProgress([s EXCEPT !.progressGuard = TRUE], FALSE)
             savedIdx == GetSavedScene(s1).ret
         IN  ScheduleGuardRelease(SwitchScene(s1, SceneName(savedIdx)))

\* variant: at the last index the request is left standing
CheckSceneProgression_KeepsFlagAtLast(s) ==
    IF ~GetCanProgress(s) \/ s.progressGuard THEN s
    ELSE IF s.currentScene = 0
    THEN LET s1 == SetCanProgress([s EXCEPT !.progressGuard = TRUE], FALSE)
             savedIdx == GetSavedScene(s1).ret
         IN  ScheduleGuardRelease(SwitchScene(s1, SceneName(savedIdx)))
    ELSE IF s.currentScene = Len(SCENE_NAMES) - 1 THEN s
    ELSE LET s1 == SetCanProgress([s EXCEPT !.progressGuard = TRUE], FALSE)
             nx == NextScene(s1)
             s2 == IF nx.ret
                   THEN SwitchScene(nx.st, SceneName(nx.st.currentScene))
                   ELSE nx.st
         IN  ScheduleGuardRelease(s2)

\* variant: a request found while the guard is engaged is dropped
CheckSceneProgression_DropsHeldRequest(s) ==
    IF ~GetCanProgress(s) THEN s
    ELSE IF s.progressGuard THEN SetCanProgress(s, FALSE)
    ELSE IF s.currentScene = 0
    THEN LET s1 == SetCanProgress([s EXCEPT !.progressGuard = TRUE], FALSE)
             savedIdx == GetSavedScene(s1).ret
         IN  ScheduleGuardRelease(SwitchScene(s1, SceneName(savedIdx)))
    ELSE LET s1 == SetCanProgress([s EXCEPT !.progressGuard = TRUE], FALSE)
             nx == NextScene(s1)
             s2 == IF nx.ret
                   THEN SwitchScene(nx.st, SceneName(nx.st.currentScene))
                   ELSE nx.st
         IN  ScheduleGuardRelease(s2)

CheckSceneProgression(s) ==
    IF ~GetCanProgress(s) \/ s.progressGuard THEN s
    ELSE IF s.currentScene = 0
    THEN LET s1 == SetCanProgress([s EXCEPT !.progressGuard = TRUE], FALSE)
             savedIdx == GetSavedScene(s1).ret
         IN  ScheduleGuardRelease(SwitchScene(s1, SceneName(savedIdx)))
    ELSE IF GetCanProgress(s)
    THEN LET s1 == SetCanProgress([s EXCEPT !.progressGuard = TRUE], FALSE)
             nx == NextScene(s1)
             s2 == IF nx.ret
                   THEN SwitchScene(nx.st, SceneName(nx.st.currentScene))
                   ELSE nx.st
         IN  ScheduleGuardRelease(s2)
    ELSE s

(***************************************************************************)
(* Scenes: the part of each timeline that decides progression.  reached    *)
(* says whether this frame's time sample meets the current phase's exit    *)
(* condition.                                                              *)
(***************************************************************************)
\* variant: on completion the intro itself moves the store to the gate
LoadingUpdate_SetsScene(s, reached) ==
    IF s.isComplete THEN s
    ELSE IF s.phase = "ringFade"
    THEN IF reached
         THEN [s EXCEPT !.phase = "dotExplode"]
         ELSE s
    ELSE IF s.phase = "dotExplode"
    THEN IF ~s.explodeStarted
         THEN [s EXCEPT !.explodeStarted = reached]
         ELSE IF reached THEN [s EXCEPT !.phase = "textPulse"] ELSE s
    ELSE IF s.phase = "textPulse"
    THEN IF reached THEN [s EXCEPT !.phase = "exitBurst"] ELSE s
    ELSE IF s.phase = "exitBurst"
    THEN IF reached
         THEN SetScene(SetCanProgress(
                  [s EXCEPT !.isComplete = TRUE,
                            !.calls["introSetCanProgress"] = @ + 1], TRUE), 1)
         ELSE s
    ELSE s

LoadingUpdate(s, reached) ==
    IF s.isComplete THEN s
    ELSE IF s.phase = "ringFade"
    THEN IF reached
         THEN [s EXCEPT !.phase = "dotExplode"]
         ELSE s
    ELSE IF s.phase = "dotExplode"
    THEN IF ~s.explodeStarted
         THEN [s EXCEPT !.explodeStarted = reached]
         ELSE IF reached THEN [s EXCEPT !.phase = "textPulse"] ELSE s
    ELSE IF s.phase = "textPulse"
    THEN IF reached THEN [s EXCEPT !.phase = "exitBurst"] ELSE s
    ELSE IF s.phase = "exitBurst"
    THEN IF reached
         THEN SetCanProgress(
                  [s EXCEPT !.isComplete = TRUE,
                            !.calls["introSetCanProgress"] = @ + 1], TRUE)
         ELSE s
    ELSE s

(***************************************************************************)
(* LoadingScene.update in full.  Times are in milliseconds (the code adds  *)
(* delta * 0.001 seconds per frame and compares with durations in          *)
(* seconds).  sinSign is Math.sign(Math.sin(pulseTime * 3)) sampled in the *)
(* frame, peak is Math.sin(pulseTime * 2.5) > 0.85.                        *)
(***************************************************************************)
RING_FADE_DURATION == 300
DOT_PULSES_BEFORE_EXPLODE == 1
EXPLODE_DURATION == 750
PULSE_HOLD_BEFORE_EXIT == 1200
EXIT_DURATION == 700

\* phaseTimer is followed up to this value: every duration lies below it,
\* so every comparison of the timer with a duration comes out as in the code
TimerCap == 1300
\* dotPulseCount is followed up to this value
MaxPulseCount == 2

Signs == {-1, 0, 1}

\* this.phaseTimer += dt
AdvanceTimer(s, delta) ==
    [s EXCEPT !.phaseTimer = IF @ + delta > TimerCap THEN TimerCap ELSE @ + delta]

\* updateLoading redraws the dot and the arc; the phase is left to the loader
UpdateLoading(s) == s

\* variant: a long frame in ringFade goes straight on to the explosion
UpdateRingFade_SkipsWait(s, sinSign) ==
    IF s.phaseTimer >= RING_FADE_DURATION
    THEN IF s.phaseTimer >= 2 * RING_FADE_DURATION
         THEN [s EXCEPT !.dotPulseCount = 0, !.lastSinSign = sinSign,
                        !.phase = "textPulse", !.phaseTimer = 0]
         ELSE [s EXCEPT !.dotPulseCount = 0, !.lastSinSign = sinSign,
                        !.phase = "dotExplode", !.phaseTimer = 0]
    ELSE s

\* variant: the sign is seeded as positive whatever the sample is
UpdateRingFade_SeedsPositive(s, sinSign) ==
    IF s.phaseTimer >= RING_FADE_DURATION
    THEN [s EXCEPT !.dotPulseCount = 0, !.lastSinSign = 1,
                   !.phase = "dotExplode", !.phaseTimer = 0]
    ELSE s

UpdateRingFade(s, sinSign) ==
    IF s.phaseTimer >= RING_FADE_DURATION
    THEN [s EXCEPT !.dotPulseCount = 0, !.lastSinSign = sinSign,
                   !.phase = "dotExplode", !.phaseTimer = 0]
    ELSE s

\* variant: the explosion starts on the crossing but runs on the timer the
\* phase was entered with
UpdateDotExplode_KeepsEntryTimer(s, sinSign) ==
    LET crossed == s.lastSinSign > 0 /\ sinSign <= 0
        s1 == IF crossed
              THEN [s EXCEPT !.dotPulseCount =
                                 IF @ < MaxPulseCount THEN @ + 1 ELSE @]
              ELSE s
        s2 == IF /\ crossed
                 /\ s1.dotPulseCount >= DOT_PULSES_BEFORE_EXPLODE
                 /\ ~s1.explodeStarted
              THEN [s1 EXCEPT !.explodeStarted = TRUE]
              ELSE s1
        s3 == [s2 EXCEPT !.lastSinSign = sinSign]
    IN  IF ~s3.explodeStarted THEN s3
        ELSE IF s3.phaseTimer >= EXPLODE_DURATION
        THEN [s3 EXCEPT !.phase = "textPulse", !.phaseTimer = 0]
        ELSE s3

UpdateDotExplode(s, sinSign) ==
    LET crossed == s.lastSinSign > 0 /\ sinSign <= 0
        s1 == IF crossed
              THEN [s EXCEPT !.dotPulseCount =
                                 IF @ < MaxPulseCount THEN @ + 1 ELSE @]
              ELSE s
        s2 == IF /\ crossed
                 /\ s1.dotPulseCount >= DOT_PULSES_BEFORE_EXPLODE
                 /\ ~s1.explodeStarted
              THEN [s1 EXCEPT !.explodeStarted = TRUE, !.phaseTimer = 0]
              ELSE s1
        s3 == [s2 EXCEPT !.lastSinSign = sinSign]
    IN  IF ~s3.explodeStarted THEN s3
        ELSE IF s3.phaseTimer >= EXPLODE_DURATION
        THEN [s3 EXCEPT !.phase = "textPulse", !.phaseTimer = 0]
        ELSE s3

\* playWhoosh(): the whoosh cue
PlayWhoosh(s) == [s EXCEPT !.calls["playWhoosh"] = @ + 1]

\* variant: the phase ends at the duration boundary without waiting for a
\* peak
UpdateTextPulse_AtBoundary(s, peak) ==
    IF s.phaseTimer >= PULSE_HOLD_BEFORE_EXIT
    THEN [PlayWhoosh(s) EXCEPT !.phase = "exitBurst", !.phaseTimer = 0]
    ELSE s

UpdateTextPulse(s, peak) ==
    IF s.phaseTimer >= PULSE_HOLD_BEFORE_EXIT
    THEN IF peak
         THEN [PlayWhoosh(s) EXCEPT !.phase = "exitBurst", !.phaseTimer = 0]
         ELSE s
    ELSE s

UpdateExitBurst(s) ==
    IF s.phaseTimer >= EXIT_DURATION
    THEN SetCanProgress(
             [s EXCEPT !.isComplete = TRUE,
                       !.calls["introSetCanProgress"] = @ + 1], TRUE)
    ELSE s

\* variant: update does not return early once the scene is complete
LoadingSceneUpdate_NoCompleteTest(s, delta, sinSign, peak) ==
    LET s1 == AdvanceTimer(s, delta)
    IN  CASE s1.phase = "loading"    -> UpdateLoading(s1)
          [] s1.phase = "ringFade"   -> UpdateRingFade(s1, sinSign)
          [] s1.phase = "dotExplode" -> UpdateDotExplode(s1, sinSign)
          [] s1.phase = "textPulse"  -> UpdateTextPulse(s1, peak)
          [] s1.phase = "exitBurst"  -> UpdateExitBurst(s1)
          [] OTHER                   -> s1

\* LoadingScene.update(time, delta)
LoadingSceneUpdate(s, delta, sinSign, peak) ==
    IF s.isComplete THEN s
    ELSE LET s1 == AdvanceTimer(s, delta)
         IN  CASE s1.phase = "loading"    -> UpdateLoading(s1)
               [] s1.phase = "ringFade"   -> UpdateRingFade(s1, sinSign)
               [] s1.phase = "dotExplode" -> UpdateDotExplode(s1, sinSign)
               [] s1.phase = "textPulse"  -> UpdateTextPulse(s1, peak)
               [] s1.phase = "exitBurst"  -> UpdateExitBurst(s1)
               [] OTHER                   -> s1

(***************************************************************************)
(* The ease functions of LoadingScene, on rational arguments n / d and in  *)
(* exact arithmetic.                                                       *)
(***************************************************************************)
\* arguments are the grid points 0/EaseGrid, 1/EaseGrid, ..., 1
EaseGrid == 12

Cube(x) == x * x * x

\* t * t * t * t
EaseInQuart(t) == [n |-> t.n * t.n * t.n * t.n, d |-> t.d * t.d * t.d * t.d]

\* variant: the upper branch lacks the "1 -"
EaseInOutCubic_NoComplement(t) ==
    IF 2 * t.n < t.d
    THEN [n |-> 4 * Cube(t.n), d |-> Cube(t.d)]
    ELSE [n |-> Cube(2 * t.d - 2 * t.n), d |-> 2 * Cube(t.d)]

\* t < 0.5 ? 4 * t * t * t : 1 - Math.pow(-2 * t + 2, 3) / 2
EaseInOutCubic(t) ==
    IF 2 * t.n < t.d
    THEN [n |-> 4 * Cube(t.n), d |-> Cube(t.d)]
    ELSE [n |-> 2 * Cube(t.d) - Cube(2 * t.d - 2 * t.n), d |-> 2 * Cube(t.d)]

EaseNames == {"easeInQuart", "easeInOutCubic"}

Ease(fn, t) == IF fn = "easeInQuart" THEN EaseInQuart(t) ELSE EaseInOutCubic(t)

\* x <= y for rationals with positive denominators
RatLeq(x, y) == x.n * y.d <= y.n * x.d

(***************************************************************************)
(* The pulse signals as functions of pulseTime.  The periods 2 pi / 3 s    *)
(* (2094.4 ms) and 2 pi / 2.5 s (2513.3 ms) are rounded to 2100 ms and     *)
(* 2520 ms, which keeps their ratio 5 : 6; pulseTime is kept modulo their  *)
(* common period.                                                          *)
(***************************************************************************)
SIN3_PERIOD == 2100
SIN25_PERIOD == 2520
PulsePeriod == 12600

\* Math.sign(Math.sin(this.pulseTime * 3))
SinSign3(pt) ==
    LET x == pt % SIN3_PERIOD
    IN  IF x = 0 \/ 2 * x = SIN3_PERIOD THEN 0
        ELSE IF 2 * x < SIN3_PERIOD THEN 1 ELSE -1

\* Math.sin(this.pulseTime * 2.5) > 0.85 holds for the part of the period
\* from PEAK_FROM to PEAK_TO (arcsin 0.85 = 1.016 rad is 407.5 ms of 2520)
PEAK_FROM == 408
PEAK_TO == 852

\* variant: the threshold is never exceeded
Peak25_Never(pt) == FALSE

Peak25(pt) ==
    LET x == pt % SIN25_PERIOD
    IN  x >= PEAK_FROM /\ x <= PEAK_TO

\* LoadingScene.update(time, delta) with the samples taken from pulseTime
LoadingSceneFrame(s, delta) ==
    IF s.isComplete THEN s
    ELSE LET pt == (s.pulseTime + delta) % PulsePeriod
         IN  LoadingSceneUpdate([s EXCEPT !.pulseTime = pt], delta,
                                SinSign3(pt), Peak25(pt))

(***************************************************************************)
(* The entry gate's timeline, step by step.  Times are in milliseconds     *)
(* (the source divides the elapsed time by 1000 and compares in seconds).  *)
(* elapsed is the application's elapsed time since Time was constructed,   *)
(* as App.update hands it to the active scene.                             *)
(***************************************************************************)
DOOR_ANIMATION_START == 500
DOOR_ANIMATION_DURATION == 2000
TEXT_FADE_START == 3000
TEXT_FADE_DURATION == 1000

\* the cue's window t < 0.05, in hundredths
SOUND_WINDOW == 5

\* elapsed times are followed up to this value, above every threshold
ElapsedCap == 4500

\* the font loader's success callback: createTitleText, then the flag
FontSuccess(s) == [s EXCEPT !.titleText = "text", !.fontLoaded = TRUE]

\* variant: the fallback box is built but the flag is left unset
CreateFallbackText_NoFlag(s) == [s EXCEPT !.titleText = "box"]

\* the font loader's error callback: createFallbackText
CreateFallbackText(s) == [s EXCEPT !.titleText = "box", !.fontLoaded = TRUE]

\* this.audioManager.playGateOpening()
PlayGateOpening(s) == [s EXCEPT !.calls["playGateOpening"] = @ + 1]

\* updateDoorAnimation; t is the numerator of the fraction
\* Math.min(animTime / DOOR_ANIMATION_DURATION, 1)
UpdateDoorAnimation(s) ==
    IF s.doorsOpened \/ s.elapsedTime < DOOR_ANIMATION_START THEN s
    ELSE LET animTime == s.elapsedTime - DOOR_ANIMATION_START
             t  == IF animTime < DOOR_ANIMATION_DURATION
                   THEN animTime ELSE DOOR_ANIMATION_DURATION
             s1 == IF /\ t > 0
                      /\ t * 100 < SOUND_WINDOW * DOOR_ANIMATION_DURATION
                      /\ ~s.gateOpeningSoundPlayed
                   THEN [PlayGateOpening(s) EXCEPT
                             !.gateOpeningSoundPlayed = TRUE]
                   ELSE s
         IN  IF t >= DOOR_ANIMATION_DURATION
             THEN [s1 EXCEPT !.doorsOpened = TRUE]
             ELSE s1

\* updateTextAnimation
UpdateTextAnimation(s) ==
    IF s.textVisible \/ ~s.fontLoaded THEN s
    ELSE IF s.elapsedTime < TEXT_FADE_START THEN s
    ELSE IF s.elapsedTime - TEXT_FADE_START >= TEXT_FADE_DURATION
         THEN [s EXCEPT !.textVisible = TRUE]
         ELSE s

\* enableProgression: the forward arrow is replaced by a clone carrying the
\* click handler
EnableProgression(s) ==
    [s EXCEPT !.progressionEnabled = TRUE, !.arrowHandler = TRUE,
              !.calls["enableProgression"] = @ + 1]

\* variant: the arrow is enabled once the doors are open
CheckUserProgress_ByDoors(s) ==
    IF (s.cameraPastGate \/ s.doorsOpened) /\ ~s.userPassedThrough
    THEN EnableProgression([s EXCEPT !.userPassedThrough = TRUE])
    ELSE s

CheckUserProgress(s) ==
    IF s.cameraPastGate /\ ~s.userPassedThrough
    THEN EnableProgression([s EXCEPT !.userPassedThrough = TRUE])
    ELSE s

\* EntryGateScene.update(elapsed, delta)
EntryGateUpdate(s, elapsed) ==
    CheckUserProgress(
        UpdateTextAnimation(
            UpdateDoorAnimation([s EXCEPT !.elapsedTime = elapsed])))

GateUpdate(s) == CheckUserProgress(s)

\* the update(elapsed, delta) method of the active scene
SceneUpdate(s, reached) ==
    IF s.appCurrentScene = "loading" THEN LoadingUpdate(s, reached)
    ELSE IF s.appCurrentScene = "entryGate" THEN GateUpdate(s)
    ELSE s

\* this.controls.update(): the camera controls are stepped
ControlsUpdate(s) == Log(s, "controls", "")

\* if (this.currentScene?.update) this.currentScene.update(elapsed, delta)
SceneUpdateStep(s, reached) ==
    IF s.appCurrentScene # "none"
    THEN Log(SceneUpdate(s, reached), "update", s.appCurrentScene)
    ELSE s

\* if (this.currentScene?.scene) this.renderer.render(scene, camera)
Render(s) ==
    IF s.appCurrentScene # "none"
    THEN Log(s, "render", s.appCurrentScene)
    ELSE s

\* variant: the progression check runs first, before the scene is stepped
AppUpdate_CheckFirst(s, reached) ==
    LET m  == ControlsUpdate(s)
        c  == CheckSceneProgression(Log(m, "check", ""))
    IN  [mid |-> m, st |-> Render(SceneUpdateStep(c, reached))]

\* variant: the progression check runs between scene update and render
AppUpdate_CheckBeforeRender(s, reached) ==
    LET m == SceneUpdateStep(ControlsUpdate(s), reached)
    IN  [mid |-> m, st |-> Render(CheckSceneProgression(Log(m, "check", "")))]

\* App.update(): mid is the state the progression check starts from, st the
\* state the frame ends in
AppUpdate(s, reached) ==
    LET m == Render(SceneUpdateStep(ControlsUpdate(s), reached))
    IN  [mid |-> m, st |-> CheckSceneProgression(Log(m, "check", ""))]

\* the state after `new App(canvas)` in main.js, for a given page environment
Constructed(st, blocked, overlay) ==
    LET fresh ==
            [store |-> st, storeBlocked |-> blocked,
             currentScene |-> 0, visitedScenes |-> {0},
             canProgress |-> FALSE, activeDot |-> 0,
             appCurrentScene |-> "none", progressGuard |-> FALSE,
             guardTimers |-> 0, hasOverlay |-> overlay,
             overlayHidden |-> TRUE, fadeTimers |-> 0,
             disposeCalls |-> [n \in {"loading", "entryGate"} |-> 0],
             phase |-> "loading", explodeStarted |-> FALSE,
             isComplete |-> FALSE, loaderPending |-> TRUE,
             cameraPastGate |-> FALSE, userPassedThrough |-> FALSE,
             progressionEnabled |-> FALSE, arrowHandler |-> FALSE,
             phaseTimer |-> 0,
             lastSinSign |-> 1,
             pulseTime |-> 0,
             dotPulseCount |-> 0,
             elapsedTime |-> 0,
             doorsOpened |-> FALSE,
             textVisible |-> FALSE,
             fontLoaded |-> FALSE,
             fontPending |-> TRUE,
             titleText |-> "none",
             gateOpeningSoundPlayed |-> FALSE,
             timeElapsed |-> 0,
             gateActiveAt |-> -1,
             calls |-> NoCalls,
             easeProbe |-> NoEase,
             switchCalls |-> 0, indexChanges |-> 0, log |-> <<>>]
        s1 == SwitchScene(fresh, "loading")
    IN  \* main.js hides the overlay once more after 500 ms
        Program([s1 EXCEPT !.fadeTimers = IF overlay THEN @ + 1 ELSE @])

(***************************************************************************)
(* Bookkeeping of what the last operation was and did.                     *)
(***************************************************************************)
Op(name) ==
    [op |-> name, arg |-> 0, val |-> 0, ok |-> FALSE, threw |-> FALSE,
     flagAtCheck |-> FALSE, guardAtCheck |-> FALSE, indexAtCheck |-> 0,
     checkChanged |-> FALSE, switches |-> 0, moves |-> 0,
     raised |-> FALSE, sceneWrote |-> FALSE, log |-> <<>>]

ClosedWindow == [polls |-> 0, swaps |-> 0, moves |-> 0, atLast |-> FALSE]

Min(a, b) == IF a <= b THEN a ELSE b

\* guardWindow after a frame whose progression check took s1 to s2
WindowAfter(w, s1, s2) ==
    IF ~s1.progressGuard /\ s2.progressGuard
    THEN [polls |-> 1, swaps |-> s2.switchCalls, moves |-> s2.indexChanges,
          atLast |-> s1.currentScene = Len(SCENE_NAMES) - 1]
    ELSE IF s2.progressGuard
    THEN [w EXCEPT !.polls = Min(@ + 1, MaxPolls),
                   !.swaps = @ + s2.switchCalls,
                   !.moves = @ + s2.indexChanges]
    ELSE ClosedWindow

(***************************************************************************)
(* Initial states: the page has just loaded and main.js has built the App. *)
(* The storage entry is whatever an earlier session left: absent or any    *)
(* short text; a blocked storage has no readable entry.                    *)
(***************************************************************************)
InitialStores == {Absent} \cup {Stored(x) : x \in StoreTexts}

StateIs(s) ==
    /\ store = s.store
    /\ storeBlocked = s.storeBlocked
    /\ currentScene = s.currentScene
    /\ visitedScenes = s.visitedScenes
    /\ canProgress = s.canProgress
    /\ activeDot = s.activeDot
    /\ appCurrentScene = s.appCurrentScene
    /\ progressGuard = s.progressGuard
    /\ guardTimers = s.guardTimers
    /\ hasOverlay = s.hasOverlay
    /\ overlayHidden = s.overlayHidden
    /\ fadeTimers = s.fadeTimers
    /\ disposeCalls = s.disposeCalls
    /\ phase = s.phase
    /\ explodeStarted = s.explodeStarted
    /\ isComplete = s.isComplete
    /\ loaderPending = s.loaderPending
    /\ cameraPastGate = s.cameraPastGate
    /\ userPassedThrough = s.userPassedThrough
    /\ progressionEnabled = s.progressionEnabled
    /\ arrowHandler = s.arrowHandler
    /\ phaseTimer = s.phaseTimer
    /\ lastSinSign = s.lastSinSign
    /\ pulseTime = s.pulseTime
    /\ dotPulseCount = s.dotPulseCount
    /\ elapsedTime = s.elapsedTime
    /\ doorsOpened = s.doorsOpened
    /\ textVisible = s.textVisible
    /\ fontLoaded = s.fontLoaded
    /\ fontPending = s.fontPending
    /\ titleText = s.titleText
    /\ gateOpeningSoundPlayed = s.gateOpeningSoundPlayed
    /\ timeElapsed = s.timeElapsed
    /\ gateActiveAt = s.gateActiveAt
    /\ calls = s.calls
    /\ easeProbe = s.easeProbe

Init ==
    /\ \E st \in InitialStores, blocked \in BOOLEAN, overlay \in BOOLEAN :
          /\ blocked => st = Absent
          /\ StateIs(Constructed(st, blocked, overlay))
    /\ guardWindow = ClosedWindow
    /\ lastOp = Op("construct")

(***************************************************************************)
(* Actions of the running page.                                            *)
(***************************************************************************)
\* App.update(), on every 'tick' event: controls, scene update, render,
\* progression check
Update ==
    \E reached \in BOOLEAN :
        LET f  == AppUpdate(Cur, reached)
            s1 == f.mid
            s2 == f.st
        IN  /\ s2.fadeTimers <= MaxFadeTimers
            /\ Commit(s2)
            /\ guardWindow' = WindowAfter(guardWindow, s1, s2)
            /\ lastOp' = [Op("update") EXCEPT
                              !.flagAtCheck = s1.canProgress,
                              !.guardAtCheck = s1.progressGuard,
                              !.indexAtCheck = s1.currentScene,
                              !.val = GetSavedScene(s1).ret,
                              !.checkChanged = (Program(s2) # Program(s1)),
                              !.switches = s2.switchCalls,
                              !.moves = s2.indexChanges,
                              !.raised = (s1.canProgress /\ ~canProgress),
                              !.sceneWrote =
                                  (<<s1.currentScene, s1.visitedScenes,
                                     s1.store, s1.activeDot>>
                                   # <<currentScene, visitedScenes, store,
                                       activeDot>>),
                              !.log = s2.log]

\* simulateLoading's tick: reschedules itself until progress reaches 1
LoaderTick ==
    /\ loaderPending
    /\ \E finished \in BOOLEAN :
          IF finished
          THEN Commit([Cur EXCEPT !.phase = "ringFade", !.phaseTimer = 0,
                                  !.loaderPending = FALSE])
          ELSE Commit(Cur)
    /\ UNCHANGED guardWindow
    /\ lastOp' = Op("loaderTick")

\* the 500 ms timer of checkSceneProgression fires
GuardTimerFire ==
    /\ guardTimers > 0
    /\ Commit([Cur EXCEPT !.progressGuard = FALSE, !.guardTimers = @ - 1])
    /\ guardWindow' = ClosedWindow
    /\ lastOp' = Op("guardTimer")

\* a fade timer fires: overlay.classList.add('hidden')
FadeTimerFire ==
    /\ fadeTimers > 0
    /\ Commit([Cur EXCEPT !.overlayHidden = TRUE, !.fadeTimers = @ - 1])
    /\ UNCHANGED guardWindow
    /\ lastOp' = Op("fadeTimer")

\* click on #arrow-forward once the gate has installed its handler
ClickForward ==
    /\ arrowHandler
    /\ Commit(IF progressionEnabled THEN SetCanProgress(Cur, TRUE) ELSE Cur)
    /\ UNCHANGED guardWindow
    /\ lastOp' = Op("clickForward")

\* click on #arrow-backward
ClickBackward ==
    LET s1 == PreviousScene(Cur)
    IN  /\ s1.fadeTimers <= MaxFadeTimers
        /\ Commit(s1)
        /\ UNCHANGED guardWindow
        /\ lastOp' = [Op("previousScene") EXCEPT !.switches = s1.switchCalls,
                                                  !.moves = s1.indexChanges,
                                                  !.log = s1.log]

\* the controls carry the camera across the gate threshold, or back
MoveCamera ==
    /\ Commit([Cur EXCEPT !.cameraPastGate = ~@])
    /\ UNCHANGED guardWindow
    /\ lastOp' = Op("moveCamera")

\* page refresh: every object and timer is rebuilt, sessionStorage survives
Reload ==
    /\ Commit(Constructed(store, storeBlocked, hasOverlay))
    /\ guardWindow' = ClosedWindow
    /\ lastOp' = Op("reload")

Next ==
    \/ Update
    \/ LoaderTick
    \/ GuardTimerFire
    \/ FadeTimerFire
    \/ ClickForward
    \/ ClickBackward
    \/ MoveCamera
    \/ Reload

Spec == Init /\ [][Next]_vars

\* timers that are pending do fire
LiveSpec == Spec /\ WF_vars(GuardTimerFire) /\ WF_vars(FadeTimerFire)

(***************************************************************************)
(* One page session with a scene-advance trigger outside the scenes: some  *)
(* code other than the active scene calls setCanProgress(true).            *)
(***************************************************************************)
ExternalTrigger ==
    /\ Commit(SetCanProgress(Cur, TRUE))
    /\ UNCHANGED guardWindow
    /\ lastOp' = Op("externalTrigger")

NextTrigger ==
    \/ Update
    \/ LoaderTick
    \/ GuardTimerFire
    \/ ClickForward
    \/ ClickBackward
    \/ MoveCamera
    \/ ExternalTrigger

\* the page loads with no entry, or with the entry of a session that had
\* reached the fifth stage; it has no #loading-overlay element, so no fade
\* timer is ever set
TriggerStores == {Absent, Stored(<<"4">>)}

InitTrigger ==
    /\ \E st \in TriggerStores, blocked \in BOOLEAN :
          /\ blocked => st = Absent
          /\ StateIs(Constructed(st, blocked, FALSE))
    /\ guardWindow = ClosedWindow
    /\ lastOp = Op("construct")

SpecTrigger == InitTrigger /\ [][NextTrigger]_vars

(***************************************************************************)
(* The loading scene on its own: frames with any delta and any pulse       *)
(* samples, the loader callback, and the controller clearing the flag.     *)
(***************************************************************************)
\* Time.delta of a frame: two ticks in the same millisecond, a short frame,
\* and frames long enough to step over a whole phase
Deltas == {0, 100, 300, 800}

IntroFrame ==
    \E delta \in Deltas, sinSign \in Signs, peak \in BOOLEAN :
        /\ Commit(Program(LoadingSceneUpdate(Cur, delta, sinSign, peak)))
        /\ UNCHANGED guardWindow
        /\ lastOp' = [Op("introFrame") EXCEPT !.arg = delta, !.val = sinSign,
                                               !.ok = peak]

\* this.globalState.setCanProgress(false) in checkSceneProgression
ClearFlag ==
    /\ canProgress
    /\ Commit(SetCanProgress(Cur, FALSE))
    /\ UNCHANGED guardWindow
    /\ lastOp' = Op("clearFlag")

InitIntro ==
    /\ StateIs(Constructed(Absent, FALSE, FALSE))
    /\ guardWindow = ClosedWindow
    /\ lastOp = Op("construct")

NextIntro ==
    \/ IntroFrame
    \/ LoaderTick
    \/ ClearFlag

SpecIntro == InitIntro /\ [][NextIntro]_vars

(***************************************************************************)
(* The loading scene on its own with the pulse samples computed from       *)
(* pulseTime.  Frames keep coming with a positive delta and the loader's   *)
(* progress reaches 1.                                                     *)
(***************************************************************************)
\* a short frame, a frame just shorter than the peak window, and a frame
\* longer than the peak window
PulseDeltas == {100, 400, 900}

PulseFrame ==
    \E delta \in PulseDeltas :
        /\ Commit(Program(LoadingSceneFrame(Cur, delta)))
        /\ UNCHANGED guardWindow
        /\ lastOp' = [Op("pulseFrame") EXCEPT !.arg = delta]

\* the loader callback that finds progress at 1
LoaderDone == LoaderTick /\ ~loaderPending'

NextPulse ==
    \/ PulseFrame
    \/ LoaderTick
    \/ ClearFlag

LiveIntroSpec ==
    /\ InitIntro
    /\ [][NextPulse]_vars
    /\ WF_vars(PulseFrame)
    /\ WF_vars(LoaderDone)

(***************************************************************************)
(* The entry gate on its own: frames, the font loader's callback, the      *)
(* camera, the forward arrow, and the application clearing the flag.       *)
(* Time advances: frames at a later time keep coming.                      *)
(***************************************************************************)
\* the shortest the intro can take from the loader's end to its completion:
\* the gate's first update comes no earlier in the running page
IntroMinimum ==
    RING_FADE_DURATION + EXPLODE_DURATION + PULSE_HOLD_BEFORE_EXIT
        + EXIT_DURATION

\* time between two updates of the gate (or up to its first one)
GateDeltas == {0, 50, 700, IntroMinimum}

GateFrame ==
    \E delta \in GateDeltas :
        /\ Commit(Program(EntryGateUpdate(Cur,
                              Min(elapsedTime + delta, ElapsedCap))))
        /\ UNCHANGED guardWindow
        /\ lastOp' = [Op("gateFrame") EXCEPT !.arg = delta]

\* the font loader calls back, with the font or with an error
FontCallback ==
    /\ fontPending
    /\ \E success \in BOOLEAN :
        /\ Commit([(IF success THEN FontSuccess(Cur)
                               ELSE CreateFallbackText(Cur))
                       EXCEPT !.fontPending = FALSE])
        /\ lastOp' = [Op("fontCallback") EXCEPT !.ok = success]
    /\ UNCHANGED guardWindow

\* a frame at a later time
GateAdvance == GateFrame /\ lastOp'.arg > 0

InitGate ==
    /\ StateIs(Constructed(Absent, FALSE, FALSE))
    /\ guardWindow = ClosedWindow
    /\ lastOp = Op("construct")

NextGate ==
    \/ GateFrame
    \/ FontCallback
    \/ MoveCamera
    \/ ClickForward
    \/ ClearFlag

SpecGate ==
    /\ InitGate
    /\ [][NextGate]_vars
    /\ WF_vars(GateAdvance)

(***************************************************************************)
(* The application clock and the gate: Time.tick advances the elapsed time *)
(* from page load and App.update hands it to whichever scene is active.    *)
(* The gate becomes the active scene when the intro has completed.         *)
(***************************************************************************)
\* the clock is followed up to this value
ClockCap == 6000

\* Time.tick: this.elapsed = this.current - this.start
TimeTick(s, delta) ==
    [s EXCEPT !.timeElapsed = Min(@ + delta, ClockCap)]

\* App.update's call this.currentScene.update(elapsed, delta), for the gate
\* (the loading scene does not read elapsed)
SceneUpdateAt(s) ==
    IF s.appCurrentScene = "entryGate"
    THEN EntryGateUpdate(s, s.timeElapsed)
    ELSE s

ClockFrame ==
    \E delta \in GateDeltas :
        /\ Commit(Program(SceneUpdateAt(TimeTick(Cur, delta))))
        /\ UNCHANGED guardWindow
        /\ lastOp' = [Op("clockFrame") EXCEPT !.arg = delta]

\* the intro has completed and checkSceneProgression switches to the gate;
\* activations are followed while the end of the door slide lies within
\* ClockCap
ActivateGate ==
    /\ appCurrentScene = "loading"
    /\ timeElapsed >= IntroMinimum
    /\ timeElapsed + DOOR_ANIMATION_START + DOOR_ANIMATION_DURATION
           <= ClockCap
    /\ Commit(Program([SwitchScene(Cur, "entryGate") EXCEPT
                           !.gateActiveAt = timeElapsed]))
    /\ UNCHANGED guardWindow
    /\ lastOp' = Op("activateGate")

NextGateClock ==
    \/ ClockFrame
    \/ ActivateGate

SpecGateClock == InitGate /\ [][NextGateClock]_vars

(***************************************************************************)
(* The ease functions applied to pairs of grid points.                     *)
(***************************************************************************)
EaseCall ==
    \E fn \in EaseNames, a \in 0..EaseGrid, b \in 0..EaseGrid :
        /\ Commit([Cur EXCEPT !.easeProbe =
                      [fn |-> fn, a |-> a, b |-> b,
                       fa |-> Ease(fn, [n |-> a, d |-> EaseGrid]),
                       fb |-> Ease(fn, [n |-> b, d |-> EaseGrid])]])
        /\ UNCHANGED guardWindow
        /\ lastOp' = Op("ease")

NextEase == EaseCall

SpecEase == InitIntro /\ [][NextEase]_vars

(***************************************************************************)
(* GlobalState on its own: direct calls of its methods on a fresh object.  *)
(***************************************************************************)
SceneArgs == (0 - ArgMargin)..(Len(sceneNames) - 1 + ArgMargin)

SetSceneCall ==
    \E i \in SceneArgs :
        /\ Commit(Program(SetScene(Cur, i)))
        /\ UNCHANGED guardWindow
        /\ lastOp' = [Op("setScene") EXCEPT !.arg = i]

NextSceneCall ==
    LET r == NextScene(Cur)
    IN  /\ Commit(Program(r.st))
        /\ UNCHANGED guardWindow
        /\ lastOp' = [Op("nextScene") EXCEPT !.ok = r.ret]

GetSavedSceneCall ==
    LET r == GetSavedScene(Cur)
    IN  /\ Commit(Cur)
        /\ UNCHANGED guardWindow
        /\ lastOp' = [Op("getSavedScene") EXCEPT !.val = r.ret,
                                                  !.threw = r.threw]

NextAPI ==
    \/ SetSceneCall
    \/ NextSceneCall
    \/ GetSavedSceneCall

SpecAPI == Init /\ [][NextAPI]_vars

(***************************************************************************)
(* The progress store and the controller called in any order: direct       *)
(* setScene and nextScene calls, switchScene by name, the backward button, *)
(* the progression check with requests raised from outside, and the        *)
(* guard's release timer.                                                  *)
(***************************************************************************)
\* dispose calls followed per scene instance
MaxDispose == 1

\* arguments of the direct setScene calls: below the range, the loading
\* stage, a stage in the range, and the first index past the range
OpsArgs == {-1, 0, 3, Len(sceneNames)}

\* names passed to switchScene: the two built scenes, a scene that is not
\* built, and a name that is in neither table
SwitchNames == {"loading", "entryGate", "hallOfLegacy", "unknown"}

\* the dispose counters are within the bound
FewDisposals(s) ==
    \A n \in DOMAIN s.disposeCalls : s.disposeCalls[n] <= MaxDispose

SetSceneOp ==
    \E i \in OpsArgs :
        /\ Commit(Program(SetScene(Cur, i)))
        /\ UNCHANGED guardWindow
        /\ lastOp' = [Op("setScene") EXCEPT !.arg = i]

NextSceneOp ==
    /\ Commit(Program(NextScene(Cur).st))
    /\ UNCHANGED guardWindow
    /\ lastOp' = Op("nextScene")

SwitchSceneOp ==
    \E sceneName \in SwitchNames :
        LET s1 == SwitchScene(Cur, sceneName)
        IN  /\ FewDisposals(s1)
            /\ Commit(Program(s1))
            /\ UNCHANGED guardWindow
            /\ lastOp' = Op("switchScene")

PreviousSceneOp ==
    LET s1 == PreviousScene(Cur)
    IN  /\ FewDisposals(s1)
        /\ Commit(Program(s1))
        /\ UNCHANGED guardWindow
        /\ lastOp' = Op("previousScene")

CheckOp ==
    LET s1 == CheckSceneProgression(Cur)
    IN  /\ FewDisposals(s1)
        /\ Commit(Program(s1))
        /\ UNCHANGED guardWindow
        /\ lastOp' = Op("check")

InitOps ==
    /\ StateIs(Constructed(Absent, FALSE, FALSE))
    /\ guardWindow = ClosedWindow
    /\ lastOp = Op("construct")

NextOps ==
    \/ SetSceneOp
    \/ NextSceneOp
    \/ SwitchSceneOp
    \/ PreviousSceneOp
    \/ CheckOp
    \/ ExternalTrigger
    \/ GuardTimerFire

SpecOps == InitOps /\ [][NextOps]_vars

(***************************************************************************)
(* Reference notions used by the properties below, stated without the      *)
(* program's own parsing.                                                  *)
(***************************************************************************)
AllIn(seq, from, to, S) == \A i \in from..to : seq[i] \in S

\* text reads as the integer k >= 1: spaces, an optional plus sign, a run of
\* digits spelling k (leading zeros allowed), then the end or a non-digit
ReadsAs(text, k) ==
    \E a \in 0..Len(text), b \in 0..Len(text), z \in 0..Len(text),
       c \in 0..Len(text) :
        /\ a <= b /\ b <= z /\ z <= c /\ b - a <= 1
        /\ AllIn(text, 1, a, {" "})
        /\ AllIn(text, a + 1, b, {"+"})
        /\ AllIn(text, b + 1, z, {"0"})
        /\ SubSeq(text, z + 1, c) = ToString(k)
        /\ (c = Len(text) \/ ~IsDigit(text[c + 1]))

ResumeRange == 1..(Len(sceneNames) - 1)

\* the resume index the stored entry stands for
RefSaved(st, blocked) ==
    IF ~blocked /\ st.present /\ \E k \in ResumeRange : ReadsAs(st.text, k)
    THEN CHOOSE k \in ResumeRange : ReadsAs(st.text, k)
    ELSE 1

GlobalStateVars == <<currentScene, visitedScenes, store, activeDot, canProgress>>

(***************************************************************************)
(* Properties                                                              *)
(***************************************************************************)

\* C1: whatever the storage entry holds (absent, non-numeric, "0", negative,
\* >= N) and also when storage access throws, getSavedScene() returns an
\* integer in 1..N-1, never 0, and lets no exception escape.
C1_SavedSceneInRange ==
    lastOp.op = "getSavedScene" =>
        /\ lastOp.val \in 1..(N - 1)
        /\ lastOp.val # 0
        /\ ~lastOp.threw

C1_Witness ==
    /\ lastOp.op = "getSavedScene"
    /\ store = Stored(<<"0">>)
    /\ lastOp.val = 1

\* C2: getSavedScene() equals the reference function: k when the stored text
\* reads as an integer k with 1 <= k <= N-1 ("4" gives 4), and 1 in every
\* other case (absent, "0", "99", storage blocked).
C2_SavedSceneIsReference ==
    lastOp.op = "getSavedScene" =>
        /\ lastOp.val = RefSaved(store, storeBlocked)
        /\ (store = Stored(<<"4">>) => lastOp.val = 4)
        /\ (store \in {Absent, Stored(<<"0">>), Stored(<<"9", "9">>)}
               => lastOp.val = 1)

C2_Witness ==
    /\ lastOp.op = "getSavedScene"
    /\ store = Stored(<<"4">>)
    /\ lastOp.val = 4

\* the progression check of the frame found canProgress set and the guard
\* clear while index a was current
Consumed(op, a) ==
    /\ op.op = "update"
    /\ op.flagAtCheck
    /\ ~op.guardAtCheck
    /\ op.indexAtCheck = a

\* C3: a progression check that finds canProgress set and the guard clear at
\* index 0 switches once, to SCENE_NAMES[getSavedScene()] and not to index 1
\* by nextScene: with no stored entry it ends at index 1 with the entry gate
\* active and the indicator on 1, with a valid stored k it ends at index k.
C3_ResumeFromIntro ==
    [][Consumed(lastOp', 0) =>
          /\ lastOp'.switches = 1
          /\ currentScene' = RefSaved(store, storeBlocked)
          /\ activeDot' = currentScene'
          /\ appCurrentScene' =
                 IF Registered(SceneName(currentScene'))
                 THEN SceneName(currentScene') ELSE "none"
          /\ (~store.present =>
                 /\ currentScene' = 1
                 /\ appCurrentScene' = "entryGate"
                 /\ activeDot' = 1)]_vars

C3_Witness ==
    /\ Consumed(lastOp, 0)
    /\ lastOp.val = 4
    /\ currentScene = 4
    /\ activeDot = 4

C5_CheckIsNoOp ==
    (lastOp.op = "update" /\ (~lastOp.flagAtCheck \/ lastOp.guardAtCheck)) =>
        /\ ~lastOp.checkChanged
        /\ lastOp.switches = 0
        /\ lastOp.moves = 0

C5_Witness ==
    /\ lastOp.op = "update"
    /\ lastOp.flagAtCheck
    /\ lastOp.guardAtCheck
    /\ ~lastOp.checkChanged
    /\ canProgress
    /\ progressGuard

\* C6: whenever the guard is engaged it is released later, in the resume
\* branch, in the advance branch and when nextScene() fails at the last
\* index.
C6_GuardReleased == progressGuard ~> ~progressGuard

C6_Witness ==
    /\ progressGuard
    /\ guardWindow.atLast
    /\ currentScene = N - 1
    /\ guardTimers = 1

\* C7: every successful nextScene() raises currentScene by exactly 1.
C7_NextSceneStepsByOne ==
    [][(lastOp'.op = "nextScene" /\ lastOp'.ok) =>
          currentScene' = currentScene + 1]_vars

C7_Witness ==
    /\ lastOp.op = "nextScene"
    /\ lastOp.ok
    /\ currentScene = N - 1
    /\ visitedScenes = 0..(N - 1)

\* C8: nextScene() at the last index returns false and changes nothing; in
\* every other state it returns true.
C8_NextSceneAtLast ==
    [][lastOp'.op = "nextScene" =>
          IF currentScene = N - 1
          THEN ~lastOp'.ok /\ UNCHANGED GlobalStateVars
          ELSE lastOp'.ok]_vars

C8_Witness ==
    /\ lastOp.op = "nextScene"
    /\ ~lastOp.ok
    /\ currentScene = N - 1

\* C9: setScene(i) with i < 0 or i >= N changes neither currentScene nor
\* visitedScenes nor the stored entry (nor the indicator or canProgress).
C9_SetSceneOutOfRange ==
    [][(lastOp'.op = "setScene" /\ (lastOp'.arg < 0 \/ lastOp'.arg >= N)) =>
          UNCHANGED GlobalStateVars]_vars

C9_Witness ==
    /\ lastOp.op = "setScene"
    /\ lastOp.arg >= N
    /\ currentScene # 0

C11_RecordFollowsIndex ==
    (~storeBlocked /\ currentScene > 0)
        => store = Stored(ToString(currentScene))

\* a backward move by previousScene has rewritten the entry with the lower
\* index
C11_Witness ==
    /\ lastOp.op = "previousScene"
    /\ lastOp.moves = 1
    /\ ~storeBlocked
    /\ currentScene + 1 \in visitedScenes
    /\ store = Stored(ToString(currentScene))

\* C12: within one page session (a reload builds a new GlobalState) no step
\* removes an index from visitedScenes, and the current index is always a
\* member; so every index that was once current stays a member.
C12_VisitedOnlyGrows ==
    [][lastOp'.op # "reload" =>
          /\ visitedScenes \subseteq visitedScenes'
          /\ currentScene \in visitedScenes
          /\ currentScene' \in visitedScenes']_vars

\* the page has moved back: an index that is no longer current is still in
\* the set, next to the start index
C12_Witness ==
    /\ lastOp.op = "previousScene"
    /\ \E i \in visitedScenes : i > currentScene
    /\ {0, currentScene} \subseteq visitedScenes
    /\ Cardinality(visitedScenes) >= 3

(***************************************************************************)
(* Reading a handler's call log.                                           *)
(***************************************************************************)
Kinds(log) == {log[i][1] : i \in 1..Len(log)}

\* positions of the entries of one kind
At(log, kind) == {i \in 1..Len(log) : log[i][1] = kind}

\* C13: a switchScene to a name of SCENE_NAMES that has no instance leaves no
\* active scene, sets the current index to the index of that name and runs
\* the fade; a later App.update() frame with no active scene makes no scene
\* update call and no render call, and still runs the progression check.
C13_MissingSceneSwitch ==
    [][/\ \A i \in At(lastOp'.log, "switch") :
              LET name == lastOp'.log[i][2]
              IN  (IndexOf(name) # -1 /\ ~Registered(name)) =>
                      /\ appCurrentScene' = "none"
                      /\ currentScene' = IndexOf(name)
                      /\ hasOverlay =>
                             (~overlayHidden' /\ fadeTimers' = fadeTimers + 1)
       /\ (lastOp'.op = "update" /\ appCurrentScene = "none") =>
              /\ Kinds(lastOp'.log) \cap {"update", "render"} = {}
              /\ "check" \in Kinds(lastOp'.log)]_vars

\* a frame has run with no active scene, at the index of a scene that was
\* never built
C13_Witness ==
    /\ lastOp.op = "update"
    /\ lastOp.log = <<(<<"controls", "">>), (<<"check", "">>)>>
    /\ appCurrentScene = "none"
    /\ currentScene >= 2
    /\ ~Registered(SceneName(currentScene))

\* C14: a switchScene to a scene that has an instance, made while another
\* scene is active, calls the active scene's dispose exactly once, and the
\* call comes before the new scene is installed and before setScene stores
\* the new index.
C14_DisposeBeforeInstall ==
    [][\A i \in At(lastOp'.log, "switch") :
          LET log  == lastOp'.log
              name == log[i][2]
          IN  (Registered(name) /\ appCurrentScene # "none") =>
                  /\ disposeCalls'[appCurrentScene]
                         = disposeCalls[appCurrentScene] + 1
                  /\ Len(log) >= i + 3
                  /\ log[i + 1] = <<"dispose", appCurrentScene>>
                  /\ log[i + 2] = <<"install", name>>
                  /\ log[i + 3] = <<"setScene", name>>]_vars

\* the loading scene has been disposed once and the gate is the active scene
C14_Witness ==
    /\ lastOp.op = "update"
    /\ lastOp.switches = 1
    /\ disposeCalls["loading"] = 1
    /\ appCurrentScene = "entryGate"
    /\ currentScene = 1

\* C15: on every step of a page session that makes an active scene stop
\* being the active one, that scene's dispose is called (once), whether the
\* target of the switch has an instance or not.
C15_OutgoingDisposed ==
    [][(/\ lastOp'.op # "reload"
        /\ appCurrentScene # "none"
        /\ appCurrentScene' # appCurrentScene) =>
           disposeCalls'[appCurrentScene]
               = disposeCalls[appCurrentScene] + 1]_vars

\* the entries of the frame steps proper, in the order they were made
FrameSteps(log) ==
    SelectSeq(log, LAMBDA e : e[1] \in {"controls", "update", "render", "check"})

\* C16: in every App.update() frame the camera controls are stepped first,
\* then the active scene is updated (if there is one), then it is rendered
\* (if there is one), then checkSceneProgression runs; no step runs twice and
\* the progression check never precedes the scene update of its frame.
C16_FrameOrder ==
    [][lastOp'.op = "update" =>
          FrameSteps(lastOp'.log) =
              IF appCurrentScene = "none"
              THEN <<(<<"controls", "">>), (<<"check", "">>)>>
              ELSE <<(<<"controls", "">>), (<<"update", appCurrentScene>>),
                     (<<"render", appCurrentScene>>), (<<"check", "">>)>>]_vars

\* a frame with an active scene has made all four steps and its check has
\* swapped the scene
C16_Witness ==
    /\ lastOp.op = "update"
    /\ Len(FrameSteps(lastOp.log)) = 4
    /\ lastOp.switches = 1
    /\ Len(lastOp.log) > 4

\* C17: in a frame whose scene update raised canProgress, the same scene is
\* rendered after that update and before the progression check runs; every
\* switchScene call of the frame, and so every swap, comes after the render.
C17_RenderedBeforeSwap ==
    [][(lastOp'.op = "update" /\ lastOp'.raised) =>
          LET log == lastOp'.log
          IN  \E u \in At(log, "update"), r \in At(log, "render") :
                  /\ u < r
                  /\ log[u][2] = appCurrentScene
                  /\ log[r][2] = appCurrentScene
                  /\ \A c \in At(log, "check") \cup At(log, "switch")
                              \cup At(log, "dispose") \cup At(log, "install") :
                         r < c]_vars

\* the loading scene has raised the flag in its update and the same frame
\* has swapped it out
C17_Witness ==
    /\ lastOp.op = "update"
    /\ lastOp.raised
    /\ lastOp.switches = 1
    /\ isComplete
    /\ appCurrentScene # "loading"
    /\ <<"render", "loading">> \in {lastOp.log[i] : i \in 1..Len(lastOp.log)}

C19_DisposedCallbacksInert ==
    [][(lastOp'.op = "loaderTick" /\ disposeCalls["loading"] > 0) =>
          /\ phase' = phase
          /\ UNCHANGED GlobalStateVars]_vars

C21_WriterPartition ==
    [][/\ lastOp'.op \in {"loaderTick", "clickForward"} =>
              UNCHANGED <<currentScene, visitedScenes, store, activeDot>>
       /\ lastOp'.op = "update" =>
              /\ ~lastOp'.sceneWrote
              /\ canProgress' => lastOp'.flagAtCheck
       /\ lastOp'.op \in {"previousScene", "guardTimer", "fadeTimer"} =>
              (canProgress' => canProgress)]_vars

\* both writers have acted: the intro raised the flag in its update and
\* the controller cleared it and moved the index in the same frame
C21_Witness ==
    /\ lastOp.op = "update"
    /\ lastOp.raised
    /\ lastOp.flagAtCheck
    /\ ~canProgress
    /\ lastOp.moves = 1
    /\ calls["introSetCanProgress"] = 1

C23_EaseLaws ==
    easeProbe.fn # "none" =>
        /\ easeProbe.a = 0 => easeProbe.fa.n = 0
        /\ easeProbe.a = EaseGrid => easeProbe.fa.n = easeProbe.fa.d
        /\ easeProbe.a <= easeProbe.b => RatLeq(easeProbe.fa, easeProbe.fb)
        /\ easeProbe.fa.d > 0

\* the cubic has been applied to two points on either side of its branch
\* boundary 0.5
C23_Witness ==
    /\ easeProbe.fn = "easeInOutCubic"
    /\ 2 * easeProbe.a < EaseGrid
    /\ 2 * easeProbe.b > EaseGrid
    /\ ~RatLeq(easeProbe.fb, easeProbe.fa)

\* position of a phase on the intro timeline
PhaseRank(p) ==
    CASE p = "loading"    -> 0
      [] p = "ringFade"   -> 1
      [] p = "dotExplode" -> 2
      [] p = "textPulse"  -> 3
      [] p = "exitBurst"  -> 4
      [] OTHER            -> 5

\* C25: under every interleaving of update frames (any delta, any samples)
\* and loader callbacks, one step moves the intro's phase by at most one
\* place along loading, ringFade, dotExplode, textPulse, exitBurst and
\* never back; isComplete is set only in exitBurst, is never reset, and the
\* explosion flag is set only in dotExplode.
C25_PhaseStepsForward ==
    [][/\ PhaseRank(phase') \in {PhaseRank(phase), PhaseRank(phase) + 1}
       /\ PhaseRank(phase') <= 4
       /\ isComplete => isComplete'
       /\ (isComplete' /\ ~isComplete) => (phase = "exitBurst" /\ phase' = phase)
       /\ (explodeStarted' /\ ~explodeStarted) => phase = "dotExplode"
       /\ explodeStarted => explodeStarted']_vars

\* the intro has gone through all five phases and completed; the loader
\* callback chain has ended
C25_Witness ==
    /\ phase = "exitBurst"
    /\ isComplete
    /\ explodeStarted
    /\ ~loaderPending
    /\ dotPulseCount >= 1
    /\ lastOp.op = "introFrame"

\* C26: the frame in which exitBurst completes sets isComplete and sets
\* canProgress (one setCanProgress(true) call); every LoadingScene.update
\* after that changes nothing at all, so the intro has made that call once
\* when it is complete and never before, and a flag the controller has
\* cleared is not set again by the intro.
C26_CompletesOnce ==
    [][lastOp'.op = "introFrame" =>
          /\ (isComplete' /\ ~isComplete) =>
                 /\ canProgress'
                 /\ calls'["introSetCanProgress"] = 1
          /\ isComplete => Cur' = Cur
          /\ ~isComplete' => calls'["introSetCanProgress"] = 0
          /\ (canProgress' /\ ~canProgress) => ~isComplete]_vars

\* a frame has run on the completed intro after the controller cleared the
\* flag: the flag is still clear and the call count still one
C26_Witness ==
    /\ lastOp.op = "introFrame"
    /\ lastOp.arg > 0
    /\ isComplete
    /\ ~canProgress
    /\ calls["introSetCanProgress"] = 1

\* C29: a frame in textPulse moves to exitBurst exactly when, with this
\* frame's delta added, the phase timer has reached PULSE_HOLD_BEFORE_EXIT
\* and this frame's breathing sample is above the threshold; that frame
\* makes the one playWhoosh call of the scene's life, and no other step
\* makes one.
C29_ExitOnPeakAfterHold ==
    [][/\ (lastOp'.op = "introFrame" /\ phase = "textPulse") =>
              /\ phase' = "exitBurst" <=>
                     /\ phaseTimer + lastOp'.arg >= PULSE_HOLD_BEFORE_EXIT
                     /\ lastOp'.ok
              /\ phase' \in {"textPulse", "exitBurst"}
       /\ calls'["playWhoosh"] =
              IF phase = "textPulse" /\ phase' = "exitBurst" THEN 1 ELSE
              calls["playWhoosh"]
       /\ calls["playWhoosh"] = IF PhaseRank(phase) >= 4 THEN 1 ELSE 0]_vars

\* a frame took a peak sample before the hold time was over and the phase
\* stayed textPulse
C29_Witness ==
    /\ lastOp.op = "introFrame"
    /\ lastOp.ok
    /\ phase = "textPulse"
    /\ phaseTimer > 0
    /\ phaseTimer < PULSE_HOLD_BEFORE_EXIT
    /\ calls["playWhoosh"] = 0

\* C30 as stated: with frames ticking (positive delta) and the loader
\* callback firing, the intro eventually is complete and has set
\* canProgress.
C30_IntroCompletes == <>(isComplete /\ calls["introSetCanProgress"] = 1)

\* a frame longer than the time the breathing signal spends above its
\* threshold in one period
LongFrame == lastOp.op = "pulseFrame" /\ lastOp.arg > PEAK_TO - PEAK_FROM

\* C30 amended: the intro eventually is complete and has set canProgress,
\* unless frames longer than the peak window keep occurring for ever.
C30_IntroCompletesShortFrames ==
    ([]<>LongFrame) \/ <>(isComplete /\ calls["introSetCanProgress"] = 1)

\* the intro has just completed in a frame shorter than the peak window
C30_Witness ==
    /\ lastOp.op = "pulseFrame"
    /\ ~LongFrame
    /\ isComplete
    /\ canProgress
    /\ calls["introSetCanProgress"] = 1
    /\ calls["playWhoosh"] = 1

\* C24: whichever callback of the font loader fires, fontLoaded is true
\* and the title visual exists (text or fallback box) from then on; once a
\* callback has fired the title reveal completes as updates continue, and
\* at once in an update at or after the end of the fade; the doors open in
\* any update at or after the end of their slide and the camera's passage
\* enables progression in any update, whether or not the font has arrived.
C24_FontNeverStalls ==
    /\ [](~fontPending => (fontLoaded /\ titleText \in {"text", "box"}))
    /\ [][lastOp'.op = "fontCallback" =>
            /\ fontLoaded'
            /\ titleText' = (IF lastOp'.ok THEN "text" ELSE "box")]_vars
    /\ (~fontPending ~> textVisible)
    /\ [][lastOp'.op = "gateFrame" =>
            /\ (fontLoaded /\ elapsedTime'
                    >= TEXT_FADE_START + TEXT_FADE_DURATION) => textVisible'
            /\ elapsedTime' >= DOOR_ANIMATION_START + DOOR_ANIMATION_DURATION
                   => doorsOpened'
            /\ cameraPastGate => (userPassedThrough' /\ progressionEnabled')
         ]_vars

\* the font failed to load, the fallback box stands in and the title
\* reveal has completed
C24_Witness ==
    /\ lastOp.op = "gateFrame"
    /\ titleText = "box"
    /\ fontLoaded
    /\ textVisible

C28_CueExactlyOnce == doorsOpened => calls["playGateOpening"] = 1

\* C31: in dotExplode the phase timer is 0 at the end of the frame in which
\* the explosion starts, and the phase is still dotExplode then; once the
\* explosion has started no frame resets the timer while the phase lasts
\* (each frame adds its delta, later crossings included), the explosion
\* never un-starts, and textPulse is entered only in a frame in which the
\* time added up since the start reaches EXPLODE_DURATION.
C31_ExplosionTimerDecoupled ==
    [][(lastOp'.op = "introFrame" /\ phase = "dotExplode") =>
          /\ (~explodeStarted /\ explodeStarted') =>
                 (phaseTimer' = 0 /\ phase' = "dotExplode")
          /\ explodeStarted =>
                 /\ explodeStarted'
                 /\ phase' = "dotExplode" =>
                        phaseTimer' = Min(phaseTimer + lastOp'.arg, TimerCap)
                 /\ phase' # "dotExplode" =>
                        /\ phase' = "textPulse"
                        /\ phaseTimer + lastOp'.arg >= EXPLODE_DURATION
          /\ ~explodeStarted => phase' = "dotExplode"]_vars

\* a second crossing has been counted during the explosion and the timer
\* has kept the time added up since the first
C31_Witness ==
    /\ lastOp.op = "introFrame"
    /\ phase = "dotExplode"
    /\ explodeStarted
    /\ dotPulseCount = 2
    /\ phaseTimer > 0
    /\ phaseTimer < EXPLODE_DURATION

\* C32: a frame whose progression check finds canProgress true and the
\* guard clear ends with canProgress false and the guard engaged, at every
\* index; when the index is the last one it makes no switchScene call and
\* no index change, and currentScene and the active scene are as before.
C32_ConsumptionClearsFlag ==
    [][(/\ lastOp'.op = "update"
        /\ lastOp'.flagAtCheck
        /\ ~lastOp'.guardAtCheck) =>
           /\ ~canProgress'
           /\ progressGuard'
           /\ lastOp'.indexAtCheck = Len(SCENE_NAMES) - 1 =>
                  /\ lastOp'.switches = 0
                  /\ lastOp'.moves = 0
                  /\ currentScene' = Len(SCENE_NAMES) - 1
                  /\ currentScene' = currentScene
                  /\ appCurrentScene' = appCurrentScene
                  /\ store' = store]_vars

\* a request has just been consumed at the last index
C32_Witness ==
    /\ lastOp.op = "update"
    /\ lastOp.flagAtCheck
    /\ ~lastOp.guardAtCheck
    /\ lastOp.indexAtCheck = Len(SCENE_NAMES) - 1
    /\ currentScene = Len(SCENE_NAMES) - 1
    /\ progressGuard
    /\ ~canProgress
    /\ guardTimers > 0

\* C33 as stated: the doors are fully open only when the gate has been the
\* active scene for the start delay plus the open duration.
C33_DoorsRunFromActivation ==
    doorsOpened =>
        /\ gateActiveAt >= 0
        /\ timeElapsed - gateActiveAt
               >= DOOR_ANIMATION_START + DOOR_ANIMATION_DURATION

\* C34: currentScene is an integer in 0..N-1 and a member of visitedScenes
\* in every reachable state.
C34_IndexInRangeAndVisited ==
    /\ currentScene \in 0..(Len(sceneNames) - 1)
    /\ currentScene \in visitedScenes
    /\ visitedScenes \subseteq 0..(Len(sceneNames) - 1)

\* a direct setScene call with an argument past the last index has just
\* returned, with the index at 3, stage 4 visited before and no active scene
C34_Witness ==
    /\ lastOp.op = "setScene"
    /\ lastOp.arg >= Len(sceneNames)
    /\ currentScene = 3
    /\ 4 \in visitedScenes
    /\ appCurrentScene = "none"

\* C35: within one page session, once currentScene is 1 or more no step
\* (frame with its progression check, backward button, outside request,
\* timer) takes it back to 0.
C35_NeverBackToLoading ==
    [][currentScene >= 1 => currentScene' >= 1]_vars

\* the backward button has been pressed at the gate after a return from
\* the third stage: the index is still 1
C35_Witness ==
    /\ lastOp.op = "previousScene"
    /\ lastOp.switches = 0
    /\ currentScene = 1
    /\ 2 \in visitedScenes

C37_OneReleaseTimer ==
    /\ guardTimers \in {0, 1}
    /\ progressGuard <=> guardTimers = 1

\* the guard is engaged for a later swap, after the timer of an earlier
\* swap has fired: one timer is pending
C37_Witness ==
    /\ lastOp.op = "update"
    /\ lastOp.indexAtCheck = 2
    /\ lastOp.switches = 1
    /\ currentScene = 3
    /\ progressGuard
    /\ guardTimers = 1

\* C38: a scene instance on which dispose has been called is not the active
\* scene in any later state, and no handler installs, updates or renders an
\* instance that was disposed before the handler or earlier in it.
C38_DisposedNeverReused ==
    /\ [](\A n \in DOMAIN disposeCalls :
              disposeCalls[n] > 0 => appCurrentScene # n)
    /\ [][\A i \in 1..Len(lastOp'.log) :
              LET log == lastOp'.log
                  n   == log[i][2]
              IN  (log[i][1] \in {"install", "update", "render"}
                       /\ n \in DOMAIN disposeCalls) =>
                      /\ disposeCalls[n] = 0
                      /\ \A j \in 1..(i - 1) : log[j] # <<"dispose", n>>]_vars

\* the loading scene was disposed, the gate has been installed a second
\* time by the backward button, and a frame has updated and rendered it
C38_Witness ==
    /\ lastOp.op = "update"
    /\ <<"update", "entryGate">> \in {lastOp.log[i] : i \in 1..Len(lastOp.log)}
    /\ <<"render", "entryGate">> \in {lastOp.log[i] : i \in 1..Len(lastOp.log)}
    /\ disposeCalls["loading"] = 1
    /\ disposeCalls["entryGate"] = 0
    /\ 2 \in visitedScenes

\* C39: a press of the backward button at index 2 or more makes one
\* switchScene call to the scene one index lower, leaving currentScene one
\* lower and the stored entry naming it (when storage is writable); at
\* index 0 or 1 it changes nothing at all; in both cases the guard, its
\* timer and canProgress are as before, whether or not the guard is
\* engaged.
C39_PreviousSceneStepsBack ==
    [][lastOp'.op = "previousScene" =>
          /\ currentScene >= 2 =>
                 /\ currentScene' = currentScene - 1
                 /\ lastOp'.switches = 1
                 /\ lastOp'.log[1] = <<"switch", SceneName(currentScene - 1)>>
                 /\ ~storeBlocked =>
                        store' = Stored(ToString(currentScene - 1))
                 /\ (currentScene - 1) \in visitedScenes'
          /\ currentScene <= 1 => Cur' = Cur
          /\ currentScene' >= 1 \/ currentScene = 0
          /\ progressGuard' = progressGuard
          /\ guardTimers' = guardTimers
          /\ canProgress' = canProgress]_vars

\* the backward button has moved the page from the fourth stage to the
\* third while the guard was engaged and a request was standing
C39_Witness ==
    /\ lastOp.op = "previousScene"
    /\ lastOp.switches = 1
    /\ currentScene = 2
    /\ store = Stored(<<"2">>)
    /\ progressGuard
    /\ canProgress

\* C40: a request standing while the guard is engaged survives every step
\* (frames, the backward button, the release timer); canProgress goes from
\* true to false only in a frame that starts with the guard clear, and a
\* frame that starts with the request standing and the guard clear consumes
\* it: the guard is engaged again and the frame makes one switchScene call
\* and one index change, or none of either at the last index.
C40_RequestDeferred ==
    [][/\ (canProgress /\ progressGuard) => canProgress'
       /\ (canProgress /\ ~canProgress') =>
              (lastOp'.op = "update" /\ ~progressGuard)
       /\ (lastOp'.op = "update" /\ canProgress /\ ~progressGuard) =>
              /\ ~canProgress'
              /\ progressGuard'
              /\ guardTimers' = 1
              /\ lastOp'.switches =
                     (IF currentScene = Len(SCENE_NAMES) - 1 THEN 0 ELSE 1)
              /\ lastOp'.moves = lastOp'.switches]_vars

\* the release timer has fired with a request standing that was raised
\* while the guard was engaged
C40_Witness ==
    /\ lastOp.op = "guardTimer"
    /\ canProgress
    /\ ~progressGuard
    /\ guardTimers = 0
    /\ currentScene >= 1

====
